---- MODULE Spec2Model ----
(***************************************************************************)
(* Model of the SES bounce handler: the POST /sns intake (signature check, *)
(* Message decoding, record building, lock-file guarded CSV append), the   *)
(* live CSV file, and the midnight job (backup, daily report with retry,   *)
(* retention cleanup).  The file-backed server is the last server of       *)
(* src/unnamed/part_005 (lines 515-916); the database-backed server is     *)
(* src/unnamed/part_000; the synchronous four-column server is             *)
(* src/unnamed/part_003; the first server is src/ses-bounces-handler.js.   *)
(*                                                                         *)
(* Time is counted in units of 1/UnitsPerDay of a day.  A timestamp field  *)
(* is a number: a value >= 0 is the instant an ISO string denotes, the     *)
(* negative values stand for the strings (or undefined) that new Date()    *)
(* turns into Invalid Date.  The server clock is taken to run in a zone    *)
(* without daylight-saving shifts, so setHours(-24) is one day back.       *)
(***************************************************************************)
EXTENDS Integers, Sequences, FiniteSets, TLC

VARIABLES
    variant,        \* which server runs: "csv" (part_005), "db" (part_000),
                    \* "sync" (part_003) or "first" (ses-bounces-handler.js)
    now,            \* wall clock
    lastTick,       \* instant of the last scheduled tick
    csvFile,        \* data/bounces_detailed.csv: [exists, header, rows]
    lockFile,       \* TRUE iff bounces_detailed.csv.lock exists
    backups,        \* backups/: directory date -> sequence of snapshots
    db,             \* the Bounce collection of the database-backed server
    pc,             \* per request: where its handler stands
    body,           \* per request: req.body
    bounceRecords,  \* per request: the records built by the handler
    status,         \* per request: HTTP status answered (0: none yet)
    reply,          \* per request: the message or error of the JSON answer
    wrote,          \* per request: history, TRUE once its append reached the store
    cronPc,         \* position of the scheduled job
    recentRecords,  \* sendDailyReport: the records of the window
    retries,        \* sendDailyReport: retries left
    attempts,       \* sendMail invocations of the current tick
    waits,          \* 5-second waits of the current tick
    mail,           \* the last delivered report: attachment and summary
    cutoffDate,     \* cleanupOldData: the retention horizon
    keptRecords,    \* cleanupOldData: the records that pass the filter
    cronLog,        \* errors logged by the job in the current tick
    trace,          \* history: what the job has done in the current tick
    download,       \* the answer to the GET /download of the behaviour
    initPc,         \* position of initializeCsvFile
    visited,        \* the requests whose SubscribeURL the server has fetched
    emailed         \* history: the reports delivered so far, instant and window

vars == <<variant, now, lastTick, csvFile, lockFile, backups, db, pc, body,
          bounceRecords, status, reply, wrote, cronPc, recentRecords, retries,
          attempts, waits, mail, cutoffDate, keptRecords, cronLog, trace,
          download, initPc, visited, emailed>>

reqVars == <<pc, body, bounceRecords, status, reply, wrote>>
cronVars == <<cronPc, recentRecords, retries, attempts, waits, mail,
              cutoffDate, keptRecords, cronLog, trace>>

-----------------------------------------------------------------------------
(* Bounds *)

NumReq == 2          \* requests handled in one behaviour
MaxTicks == 1        \* days the clock may advance from the first instant
UnitsPerDay == 2     \* clock resolution

Procs == 1..NumReq

(* Program constants *)

DefaultRetentionDays == 7
ReportWindowHours == 24
SendRetries == 3

Day == UnitsPerDay
Hours(h) == (h * UnitsPerDay) \div 24
\* the first tick, far enough from the epoch for a horizon of 30 days
Now0 == 40 * Day
MaxNow == Now0 + MaxTicks * Day

-----------------------------------------------------------------------------
(* JavaScript values *)

Undefined == "<undefined>"
TsUndefined == -3       \* a timestamp property that is absent
TsGarbage == -2         \* a timestamp string that is not a date
TsEmpty == -1           \* the empty string in the timestamp column

Falsy(v) == v = Undefined \/ v = ""
OrElse(v, d) == IF Falsy(v) THEN d ELSE v

NewDate(ts) == IF ts >= 0 THEN [valid |-> TRUE, time |-> ts]
                          ELSE [valid |-> FALSE, time |-> 0]
DateGt(a, b) == a.valid /\ b.valid /\ a.time > b.time
DateLt(a, b) == a.valid /\ b.valid /\ a.time < b.time
DateGte(a, b) == a.valid /\ b.valid /\ a.time >= b.time

\* new Date(); setHours(getHours() - 24)
twentyFourHoursAgo(t) == NewDate(t - Hours(ReportWindowHours))
\* new Date(); setDate(getDate() - retentionDays)
CutoffDate(t) == NewDate(t - DefaultRetentionDays * Day)

Filter(s, Keep(_)) == SelectSeq(s, Keep)
Map(s, F(_)) == [i \in DOMAIN s |-> F(s[i])]
Range(s) == {s[i] : i \in DOMAIN s}
Count(s, x) == Cardinality({i \in DOMAIN s : s[i] = x})

-----------------------------------------------------------------------------
(* csv-writer and csv-parse.  A row of the file is the tuple of its nine   *)
(* column values.  An object is [keys, v]: the property names it was built *)
(* with ("id": email, timestamp, ...; "title": 'Bounced Email',            *)
(* 'Timestamp', ...; "other": names taken from a data row) and the values. *)

NumColumns == 9
ColTimestamp == 2
ColBounceType == 5

\* FieldStringifier: undefined, null and '' are written as the empty field
StrField(v) == IF v = Undefined THEN "" ELSE v
StrTs(ts) == IF ts = TsUndefined THEN TsEmpty ELSE ts
BlankRow == <<"", TsEmpty, "", "", "", "", "", "", "">>

\* csvStringifier.stringifyRecords: one row per object, each column read by
\* its field id
StringifyRecord(o) ==
    IF o.keys = "id"
    THEN [i \in 1..NumColumns |->
            IF i = ColTimestamp THEN StrTs(o.v[i]) ELSE StrField(o.v[i])]
    ELSE BlankRow
stringifyRecords(objs) == Map(objs, StringifyRecord)

\* csv.parse(content, {columns: true, skip_empty_lines: true}): the first
\* line names the properties of the objects made from the other lines
TitleObject(row) == [keys |-> "title", v |-> row]
OtherObject(row) == [keys |-> "other", v |-> row]
CsvParse(file) ==
    IF file.header THEN Map(file.rows, TitleObject)
    ELSE IF file.rows = <<>> THEN <<>>
    ELSE Map(Tail(file.rows), OtherObject)

\* record['Timestamp'], record['Bounce Type']
GetTimestampTitle(o) == IF o.keys = "title" THEN o.v[ColTimestamp] ELSE TsUndefined
GetBounceTypeTitle(o) == IF o.keys = "title" THEN o.v[ColBounceType] ELSE Undefined

NoFile == [exists |-> FALSE, header |-> FALSE, rows |-> <<>>]
\* fs.writeFile(csvFilePath, csvStringifier.getHeaderString() + csvString)
HeaderAnd(rows) == [exists |-> TRUE, header |-> TRUE, rows |-> rows]
\* an append that skips the rows the file already holds
AppendFileDedup(file, rows) ==
    [exists |-> TRUE, header |-> file.header,
     rows |-> file.rows \o SelectSeq(rows, LAMBDA x : x \notin Range(file.rows))]
\* fs.appendFile(csvFilePath, csvString): creates the file when it is missing
AppendFile(file, rows) ==
    [exists |-> TRUE, header |-> file.header, rows |-> file.rows \o rows]

-----------------------------------------------------------------------------
(* Notifications and envelopes *)

Recipient(addr, diag) == [emailAddress |-> addr, diagnosticCode |-> diag]

NoBounce == [present |-> FALSE, bounceType |-> Undefined, bounceSubType |-> Undefined,
             timestamp |-> TsUndefined, reportingMTA |-> Undefined,
             feedbackId |-> Undefined, bouncedRecipients |-> <<>>]
NoMail == [present |-> FALSE, source |-> Undefined, sourceIp |-> Undefined]
TheMail == [present |-> TRUE, source |-> "sender@example.com", sourceIp |-> "10.0.0.1"]

Bounce(type, sub, ts, mta, fid, rcpts) ==
    [present |-> TRUE, bounceType |-> type, bounceSubType |-> sub, timestamp |-> ts,
     reportingMTA |-> mta, feedbackId |-> fid, bouncedRecipients |-> rcpts]

Notification(kind, b, m) == [notificationType |-> kind, bounce |-> b, mail |-> m]

\* a fresh two-recipient bounce; the second recipient has no diagnostic code
\* and the bounce no sub-type
NFresh == Notification("Bounce",
            Bounce("Permanent", Undefined, Now0, "dsn; a.example", "fb-fresh",
                   <<Recipient("a@example.com", "550 no such user"),
                     Recipient("b@example.com", Undefined)>>), TheMail)
\* a bounce stamped exactly 24 hours before the first tick
NDayOld == Notification("Bounce",
            Bounce("Transient", "General", Now0 - Day, "dsn; b.example", "fb-dayold",
                   <<Recipient("c@example.com", "421 try later")>>), TheMail)
\* a bounce stamped eight days before the first tick
NOld == Notification("Bounce",
            Bounce("Permanent", "General", Now0 - 8 * Day, "dsn; c.example", "fb-old",
                   <<Recipient("d@example.com", "550 gone")>>), TheMail)
\* a bounce whose timestamp is not a date
NGarbageTs == Notification("Bounce",
            Bounce("Permanent", "General", TsGarbage, "dsn; d.example", "fb-bad",
                   <<Recipient("e@example.com", "550 gone")>>), TheMail)
NNoRecipients == Notification("Bounce",
            Bounce("Permanent", "General", Now0, "dsn; e.example", "fb-none", <<>>), TheMail)
NComplaint == Notification("Complaint", NoBounce, TheMail)

AwsCert == "https://sns.us-east-1.amazonaws.com/cert.pem"

\* Message: form "object" (already structured), "json" (JSON text of val),
\* "json2" (JSON text of a string holding the JSON text of val), "escaped"
\* (the JSON text of val with every quote written as \", no outer quotes),
\* "text" (not JSON, as in a SubscriptionConfirmation)
Envelope(cert, sig, ver, form, val) ==
    [SigningCertURL |-> cert, Signature |-> sig, SignatureVersion |-> ver,
     Message |-> [form |-> form, val |-> val]]
Signed(form, val) == Envelope(AwsCert, "sig", "1", form, val)

\* the envelopes of the full system: two stored bounces and a rejected one
CoreEnvelopes ==
    { Signed("json", NFresh), Signed("object", NDayOld),
      Signed("json", NNoRecipients) }
\* the envelopes of the intake alone
IntakeEnvelopes ==
    CoreEnvelopes \cup
    { Signed("json", NOld), Signed("json", NGarbageTs), Signed("json", NComplaint),
      Signed("json2", NFresh), Signed("text", NComplaint),
      Envelope(Undefined, "sig", "1", "json", NFresh),
      Envelope("https://evil.example.com/cert.pem", "sig", "1", "json", NFresh) }

-----------------------------------------------------------------------------
(* Intake: verifySignature, processSNSMessage, the record mapping *)

\* new URL(s).hostname; "" stands for the TypeError of an invalid URL
Hostname(url) ==
    CASE url = AwsCert -> "sns.us-east-1.amazonaws.com"
      [] url = "https://evil.example.com/cert.pem" -> "evil.example.com"
      [] OTHER -> ""
EndsWithAws(host) == host = "sns.us-east-1.amazonaws.com"

\* a verification that trusts every message
verifySignatureTrusting(message) == TRUE
verifySignature(message) ==
    IF Falsy(message.SigningCertURL) \/ Falsy(message.Signature)
          \/ Falsy(message.SignatureVersion)
    THEN FALSE
    ELSE IF Hostname(message.SigningCertURL) = "" THEN FALSE
    ELSE EndsWithAws(Hostname(message.SigningCertURL))

\* JSON.parse of a Message string: [ok, type, val]
JsonParse(m) ==
    CASE m.form = "json" -> [ok |-> TRUE, type |-> "object", val |-> m.val]
      [] m.form = "json2" -> [ok |-> TRUE, type |-> "string", val |-> m.val]
      [] OTHER -> [ok |-> FALSE, type |-> "none", val |-> m.val]

Thrown(e) == [out |-> "throw", error |-> e, content |-> NComplaint]
Null == [out |-> "null", error |-> "", content |-> NComplaint]
Content(c) == [out |-> "content", error |-> "", content |-> c]

\* part_005: errors are logged and thrown again
processSNSMessage(message) ==
    IF ~verifySignature(message) THEN Thrown("Invalid SNS message signature")
    ELSE IF message.Message.form = "object"
         THEN (IF message.Message.val.notificationType # "Bounce"
               THEN Null ELSE Content(message.Message.val))
    ELSE IF ~JsonParse(message.Message).ok THEN Thrown("Invalid Message format")
    ELSE IF JsonParse(message.Message).type = "string" THEN Null
    ELSE IF JsonParse(message.Message).val.notificationType # "Bounce" THEN Null
    ELSE Content(JsonParse(message.Message).val)

\* part_000: the catch block logs and returns nothing
processSNSMessageDb(message) ==
    IF processSNSMessage(message).out = "throw" THEN Null
    ELSE processSNSMessage(message)

\* !bounce?.bouncedRecipients?.length || !mail
InvalidBounceData(c) ==
    ~c.bounce.present \/ Len(c.bounce.bouncedRecipients) = 0 \/ ~c.mail.present

\* the object built for one recipient, keyed by field id
RecordOf(c, recipient) ==
    [keys |-> "id",
     v |-> << recipient.emailAddress,
              c.bounce.timestamp,
              c.mail.source,
              c.mail.sourceIp,
              OrElse(c.bounce.bounceType, "Unknown"),
              OrElse(c.bounce.bounceSubType, "Unknown"),
              OrElse(recipient.diagnosticCode, "Not provided"),
              OrElse(c.bounce.reportingMTA, "Not provided"),
              OrElse(c.bounce.feedbackId, "Not provided") >>]
\* the mapping of the first server: bouncedRecipients[0] alone
BounceRecordsFirstOnly(c) ==
    <<RecordOf(c, c.bounce.bouncedRecipients[1])>>
\* bounce.bouncedRecipients.map(recipient => ({...}))
BounceRecords(c) ==
    [i \in DOMAIN c.bounce.bouncedRecipients |->
        RecordOf(c, c.bounce.bouncedRecipients[i])]

-----------------------------------------------------------------------------
(* The report mail and the answer of GET /download *)

\* a summary keyed by the sub-type of the record
SummaryKeySubType(o) ==
    OrElse(IF o.keys = "title" \/ variant = "db" THEN o.v[ColBounceType + 1]
                                                 ELSE Undefined, "Unknown")
\* record['Bounce Type'] || 'Unknown' (part_005); record.bounceType ||
\* 'Unknown' (part_000)
SummaryKey(o) ==
    OrElse(IF variant = "db" THEN o.v[ColBounceType] ELSE GetBounceTypeTitle(o),
           "Unknown")
\* recentRecords.reduce((acc, record) => { acc[type] = (acc[type] || 0) + 1 })
BounceTypeSummary(records) ==
    [t \in {SummaryKey(records[i]) : i \in DOMAIN records} |->
        Cardinality({i \in DOMAIN records : SummaryKey(records[i]) = t})]
NoSummary == [t \in {} |-> 0]

\* mailOptions: the attachment (with or without the header line), the total
\* and the summary of the text
Report(header, rows, total, summary) ==
    [header |-> header, attachment |-> rows, total |-> total, summary |-> summary]
NoReport == Report(FALSE, <<>>, 0, NoSummary)
\* the records a report is made of, as tuples of their values
Window(records) == Map(SelectSeq(records, LAMBDA o : o.keys # "header"), LAMBDA o : o.v)
\* a delivered report: the instant of its tick and its window
Delivery(t, records) == [at |-> t, rows |-> Window(records)]
\* part_005: content: csvString; part_000: getHeaderString() + stringifyRecords
DailyReport(records) ==
    Report(variant = "db", stringifyRecords(records), Len(records),
           BounceTypeSummary(records))

\* an HTTP answer of GET /download: status, the member of the JSON body
\* ("error", "message"), or "file" for a CSV body and "text" for plain text
Response(code, member, header, rows) ==
    [status |-> code, member |-> member, header |-> header, rows |-> rows]
NoResponse == Response(0, "none", FALSE, <<>>)

-----------------------------------------------------------------------------
(* Stores the server can be started on: the live file survives restarts *)

RowAt(ts, addr, fid) ==
    <<addr, ts, "sender@example.com", "10.0.0.1", "Permanent", "General",
      "550 gone", "dsn; s.example", fid>>

\* the five records of the retention scenario, T being the first tick
ScenarioT == Now0
RowT == RowAt(ScenarioT, "t0@example.com", "fb-t0")
RowT8 == RowAt(ScenarioT - 8 * Day, "t8@example.com", "fb-t8")
RowT10 == RowAt(ScenarioT - 10 * Day, "t10@example.com", "fb-t10")
RowT6 == RowAt(ScenarioT - 6 * Day, "t6@example.com", "fb-t6")
RowT1 == RowAt(ScenarioT - Day, "t1@example.com", "fb-t1")
ScenarioStore == HeaderAnd(<<RowT, RowT8, RowT10, RowT6, RowT1>>)

EmptyStore == HeaderAnd(<<>>)
\* one row exactly at the first tick's horizon, one inside the retention
\* window but outside the report window
MixedStore == HeaderAnd(<<RowAt(Now0 - DefaultRetentionDays * Day, "h@example.com", "fb-h"),
                          RowT6>>)
CoreStores == {EmptyStore, MixedStore}

\* backups/: directory date (day number) -> the snapshots in it
NoBackups == [d \in {} |-> <<>>]
Today(t) == t \div Day
OldBackups == [d \in {Today(Now0) - 8, Today(Now0) - 7, Today(Now0) - 1} |-> <<<<>>>>]
CoreBackups == {NoBackups, OldBackups}

-----------------------------------------------------------------------------
(* Initial state *)

\* files, dirs and docs give, for each server, what it can be started on
InitAt(variants, files, dirs, docs, start) ==
    /\ variant \in variants
    /\ now = Now0
    /\ lastTick = -1
    /\ csvFile \in files[variant]
    /\ lockFile = FALSE
    /\ backups \in dirs[variant]
    /\ db \in docs[variant]
    /\ pc = [r \in Procs |-> "new"]
    /\ body = [r \in Procs |-> Signed("json", NComplaint)]
    /\ bounceRecords = [r \in Procs |-> <<>>]
    /\ status = [r \in Procs |-> 0]
    /\ reply = [r \in Procs |-> ""]
    /\ wrote = [r \in Procs |-> FALSE]
    /\ cronPc = "idle"
    /\ recentRecords = <<>>
    /\ retries = 0
    /\ attempts = 0
    /\ waits = 0
    /\ mail = NoReport
    /\ cutoffDate = NewDate(TsEmpty)
    /\ keptRecords = <<>>
    /\ cronLog = <<>>
    /\ trace = <<>>
    /\ download = NoResponse
    /\ initPc = start
    /\ visited = {}
    /\ emailed = <<>>

\* a server whose initialization has completed
InitOn(variants, files, dirs, docs) == InitAt(variants, files, dirs, docs, "done")

InitWith(variants, stores, dirs) ==
    InitOn(variants,
           [csv |-> stores, db |-> {NoFile}, sync |-> {}, first |-> {}],
           [csv |-> dirs, db |-> {NoBackups}, sync |-> {}, first |-> {}],
           [csv |-> {<<>>}, db |-> {<<>>}, sync |-> {}, first |-> {}])

Init == InitWith({"csv", "db"}, CoreStores, CoreBackups)

-----------------------------------------------------------------------------
(* POST /sns, file-backed server (part_005) *)

Respond(r, code, text) ==
    /\ pc' = [pc EXCEPT ![r] = "done"]
    /\ status' = [status EXCEPT ![r] = code]
    /\ reply' = [reply EXCEPT ![r] = text]

\* process.exit(1) of a failed initialization ends every handler
ServerUp == initPc # "exited"
\* requests are taken in the order of their numbers
Arrives(r) == pc[r] = "new" /\ (IF r = 1 THEN TRUE ELSE pc[r - 1] # "new")

\* the handler up to its first await: decode, validate, build the records
HandleSns(r, envelopes) ==
    /\ variant = "csv"
    /\ ServerUp
    /\ Arrives(r)
    /\ \E e \in envelopes :
        /\ body' = [body EXCEPT ![r] = e]
        /\ IF processSNSMessage(e).out = "throw"
           THEN /\ Respond(r, 500, "Internal server error")
                /\ UNCHANGED bounceRecords
           ELSE IF processSNSMessage(e).out = "null"
           THEN /\ Respond(r, 200, "Non-bounce notification ignored")
                /\ UNCHANGED bounceRecords
           ELSE IF InvalidBounceData(processSNSMessage(e).content)
           THEN /\ Respond(r, 500, "Internal server error")
                /\ UNCHANGED bounceRecords
           ELSE /\ bounceRecords' = [bounceRecords EXCEPT ![r] =
                                       BounceRecords(processSNSMessage(e).content)]
                /\ pc' = [pc EXCEPT ![r] = "lock"]
                /\ UNCHANGED <<status, reply>>
    /\ UNCHANGED <<initPc, visited, emailed, download, variant, now, lastTick,
                   csvFile, lockFile, backups, db, wrote>>
    /\ UNCHANGED cronVars

\* appendToCsv: await fs.writeFile(lockFile, '')
AcquireLock(r) ==
    /\ pc[r] = "lock"
    /\ ServerUp
    /\ \E ok \in BOOLEAN :
        IF ok THEN /\ lockFile' = TRUE
                   /\ pc' = [pc EXCEPT ![r] = "append"]
              ELSE /\ pc' = [pc EXCEPT ![r] = "catch"]
                   /\ UNCHANGED lockFile
    /\ UNCHANGED <<initPc, visited, emailed, download, variant, now, lastTick,
                   csvFile, backups, db, body,
                   bounceRecords, status, reply, wrote>>
    /\ UNCHANGED cronVars

\* appendToCsv: await fs.appendFile(csvFilePath, csvString)
AppendRows(r) ==
    /\ pc[r] = "append"
    /\ ServerUp
    /\ \E ok \in BOOLEAN :
        IF ok THEN /\ csvFile' = AppendFile(csvFile, stringifyRecords(bounceRecords[r]))
                   /\ wrote' = [wrote EXCEPT ![r] = TRUE]
                   /\ pc' = [pc EXCEPT ![r] = "unlock"]
              ELSE /\ pc' = [pc EXCEPT ![r] = "catch"]
                   /\ UNCHANGED <<csvFile, wrote>>
    /\ UNCHANGED <<initPc, visited, emailed, download, variant, now, lastTick,
                   lockFile, backups, db, body,
                   bounceRecords, status, reply>>
    /\ UNCHANGED cronVars

\* appendToCsv: await fs.unlink(lockFile), then the 200 answer; ENOENT when
\* the lock file is gone
ReleaseLock(r) ==
    /\ pc[r] = "unlock"
    /\ ServerUp
    /\ IF lockFile
       THEN /\ lockFile' = FALSE
            /\ Respond(r, 200, "Bounce processed successfully")
       ELSE /\ pc' = [pc EXCEPT ![r] = "catch"]
            /\ UNCHANGED <<lockFile, status, reply>>
    /\ UNCHANGED <<initPc, visited, emailed, download, variant, now, lastTick,
                   csvFile, backups, db, body,
                   bounceRecords, wrote>>
    /\ UNCHANGED cronVars

\* a catch block that throws again without unlinking
CatchNoRelease(r) ==
    /\ pc[r] = "catch"
    /\ Respond(r, 500, "Internal server error")
    /\ UNCHANGED <<initPc, visited, emailed, download, variant, now, lastTick,
                   csvFile, lockFile, backups, db,
                   body, bounceRecords, wrote>>
    /\ UNCHANGED cronVars

\* appendToCsv's catch block: unlink again (its error is only logged), throw;
\* the handler answers 500
CatchRelease(r) ==
    /\ pc[r] = "catch"
    /\ ServerUp
    /\ lockFile' = FALSE
    /\ Respond(r, 500, "Internal server error")
    /\ UNCHANGED <<initPc, visited, emailed, download, variant, now, lastTick,
                   csvFile, backups, db, body,
                   bounceRecords, wrote>>
    /\ UNCHANGED cronVars

-----------------------------------------------------------------------------
(* Start of the file-backed server (part_005): app.listen(...) is called,  *)
(* then initializeCsvFile() without await, so requests are handled between *)
(* its steps.                                                              *)

\* initializeCsvFile: fileExists = await fs.access(csvFilePath).then(() =>
\* true).catch(() => false)
InitAccess ==
    /\ variant = "csv"
    /\ initPc = "access"
    /\ initPc' = IF csvFile.exists THEN "done" ELSE "write"
    /\ UNCHANGED <<visited, emailed, download, variant, now, lastTick, csvFile, lockFile,
                   backups, db>>
    /\ UNCHANGED reqVars
    /\ UNCHANGED cronVars

\* initializeCsvFile: await fs.writeFile(csvFilePath, getHeaderString()),
\* which replaces whatever the file holds; an error ends the process
InitWrite ==
    /\ variant = "csv"
    /\ initPc = "write"
    /\ \E ok \in BOOLEAN :
        IF ok THEN /\ csvFile' = HeaderAnd(<<>>)
                   /\ initPc' = "done"
              ELSE /\ initPc' = "exited"
                   /\ UNCHANGED csvFile
    /\ UNCHANGED <<visited, emailed, download, variant, now, lastTick, lockFile, backups,
                   db>>
    /\ UNCHANGED reqVars
    /\ UNCHANGED cronVars

-----------------------------------------------------------------------------
(* POST /sns, database-backed server (part_000) *)

\* timestamp: new Date(bounce.timestamp)
DocOf(o) == [keys |-> "id",
             v |-> [i \in 1..NumColumns |->
                      IF i = ColTimestamp
                      THEN (IF NewDate(o.v[i]).valid THEN o.v[i] ELSE TsGarbage)
                      ELSE o.v[i]]]
\* the schema casts timestamp to Date: an Invalid Date fails validation
CastFails(docs) == \E i \in DOMAIN docs : ~NewDate(docs[i].v[ColTimestamp]).valid

HandleSnsDb(r, envelopes) ==
    /\ variant = "db"
    /\ Arrives(r)
    /\ \E e \in envelopes :
        /\ body' = [body EXCEPT ![r] = e]
        /\ IF processSNSMessageDb(e).out = "null"
           THEN /\ Respond(r, 200, "Non-bounce notification ignored")
                /\ UNCHANGED bounceRecords
           ELSE IF InvalidBounceData(processSNSMessageDb(e).content)
           THEN /\ Respond(r, 500, "Internal server error")
                /\ UNCHANGED bounceRecords
           ELSE /\ bounceRecords' = [bounceRecords EXCEPT ![r] =
                        Map(BounceRecords(processSNSMessageDb(e).content), DocOf)]
                /\ pc' = [pc EXCEPT ![r] = "insert"]
                /\ UNCHANGED <<status, reply>>
    /\ UNCHANGED <<initPc, visited, emailed, download, variant, now, lastTick,
                   csvFile, lockFile, backups, db, wrote>>
    /\ UNCHANGED cronVars

\* await Bounce.insertMany(bounceRecords)
InsertMany(r) ==
    /\ pc[r] = "insert"
    /\ \E ok \in BOOLEAN :
        IF ok /\ ~CastFails(bounceRecords[r])
        THEN /\ db' = db \o bounceRecords[r]
             /\ wrote' = [wrote EXCEPT ![r] = TRUE]
             /\ Respond(r, 200, "Bounce processed successfully")
        ELSE /\ Respond(r, 500, "Internal server error")
             /\ UNCHANGED <<db, wrote>>
    /\ UNCHANGED <<initPc, visited, emailed, download, variant, now, lastTick,
                   csvFile, lockFile, backups, body,
                   bounceRecords>>
    /\ UNCHANGED cronVars

-----------------------------------------------------------------------------
(* The clock and the scheduler: cron '0 0 * * *' *)

TickDue == now % Day = 0 /\ lastTick # now

AdvanceTime ==
    /\ now < MaxNow
    /\ cronPc = "idle"
    /\ ~TickDue
    /\ now' = now + 1
    /\ UNCHANGED <<initPc, visited, emailed, download, variant, lastTick,
                   csvFile, lockFile, backups, db>>
    /\ UNCHANGED reqVars
    /\ UNCHANGED cronVars

\* an error that leaves the callback and ends the process
CronFailsUncaught(what) ==
    /\ cronPc' = "exited"
    /\ cronLog' = Append(cronLog, what)
\* the job's catch block: console.error('Error in cron job:', error)
CronFails(what) ==
    /\ cronPc' = "idle"
    /\ cronLog' = Append(cronLog, what)

\* the record of a completed step
Did(what) == trace' = Append(trace, what)

\* a job that starts with the cleanup
FirstStageCleanup(v) == IF v = "csv" THEN "cleanup" ELSE "transporter"
\* the first statement of the scheduled callback
FirstStage(v) == IF v = "csv" THEN "backup" ELSE "transporter"

CronFire ==
    /\ cronPc = "idle"
    /\ TickDue
    /\ lastTick' = now
    /\ cronPc' = FirstStage(variant)
    /\ recentRecords' = <<>>
    /\ keptRecords' = <<>>
    /\ retries' = 0
    /\ attempts' = 0
    /\ waits' = 0
    /\ cronLog' = <<>>
    /\ trace' = <<>>
    /\ UNCHANGED <<initPc, visited, emailed, download, variant, now, csvFile,
                   lockFile, backups, db, mail, cutoffDate>>
    /\ UNCHANGED reqVars

\* fs.mkdir(backupDir), then compressAndSaveFile(csvFilePath, backupPath)
WithDir(dirs, d) ==
    [x \in DOMAIN dirs \cup {d} |-> IF x \in DOMAIN dirs THEN dirs[x] ELSE <<>>]
WithSnapshot(dirs, d, rows) ==
    [WithDir(dirs, d) EXCEPT ![d] = Append(@, rows)]

CreateBackup ==
    /\ cronPc = "backup"
    /\ \E ok \in BOOLEAN :
        IF ok /\ csvFile.exists
        THEN /\ backups' = WithSnapshot(backups, Today(now), csvFile.rows)
             /\ cronPc' = "transporter"
             /\ Did("snapshot")
             /\ UNCHANGED cronLog
        ELSE /\ backups' = WithDir(backups, Today(now))
             /\ CronFails("Error compressing file")
             /\ UNCHANGED trace
    /\ UNCHANGED <<initPc, visited, emailed, download, variant, now, lastTick,
                   csvFile, lockFile, db, recentRecords,
                   retries, attempts, waits, mail, cutoffDate, keptRecords>>
    /\ UNCHANGED reqVars

\* createTransporter: transporter.verify()
CreateTransporter ==
    /\ cronPc = "transporter"
    /\ \E ok \in BOOLEAN :
        IF ok THEN cronPc' = "report" /\ UNCHANGED cronLog
              ELSE CronFails("Failed to create mail transporter")
    /\ UNCHANGED <<initPc, visited, emailed, download, variant, now, lastTick,
                   csvFile, lockFile, backups, db,
                   recentRecords, retries, attempts, waits, mail, cutoffDate,
                   keptRecords, trace>>
    /\ UNCHANGED reqVars

\* recordDate > twentyFourHoursAgo
InReportWindow(o, t) ==
    DateGt(NewDate(GetTimestampTitle(o)), twentyFourHoursAgo(t))
ReportWindow(file, t) ==
    Filter(CsvParse(file), LAMBDA o : InReportWindow(o, t))

\* Bounce.find({ timestamp: { $gte: twentyFourHoursAgo } })
InReportWindowDb(o, t) ==
    DateGte(NewDate(o.v[ColTimestamp]), twentyFourHoursAgo(t))
ReportWindowDb(docs, t) ==
    Filter(docs, LAMBDA o : InReportWindowDb(o, t))

\* recentRecords.length === 0
NothingToReport(records) == Len(records) = 0

\* sendDailyReport up to the retry loop, file-backed server
ReadReport ==
    /\ variant = "csv"
    /\ cronPc = "report"
    /\ \E ok \in BOOLEAN :
        IF ok /\ csvFile.exists
        THEN /\ recentRecords' = ReportWindow(csvFile, now)
             /\ IF NothingToReport(ReportWindow(csvFile, now))
                THEN cronPc' = "cleanup" /\ UNCHANGED retries
                ELSE cronPc' = "send" /\ retries' = SendRetries
             /\ UNCHANGED cronLog
        ELSE /\ CronFails("Error sending daily report")
             /\ UNCHANGED <<recentRecords, retries>>
    /\ UNCHANGED <<initPc, visited, emailed, download, variant, now, lastTick,
                   csvFile, lockFile, backups, db,
                   attempts, waits, mail, cutoffDate, keptRecords, trace>>
    /\ UNCHANGED reqVars

\* sendDailyReport up to the retry loop, database-backed server
QueryReport ==
    /\ variant = "db"
    /\ cronPc = "report"
    /\ \E ok \in BOOLEAN :
        IF ok
        THEN /\ recentRecords' = ReportWindowDb(db, now)
             /\ IF NothingToReport(ReportWindowDb(db, now))
                THEN cronPc' = "idle" /\ UNCHANGED retries
                ELSE cronPc' = "send" /\ retries' = SendRetries
             /\ UNCHANGED cronLog
        ELSE /\ CronFails("Error sending daily report")
             /\ UNCHANGED <<recentRecords, retries>>
    /\ UNCHANGED <<initPc, visited, emailed, download, variant, now, lastTick,
                   csvFile, lockFile, backups, db,
                   attempts, waits, mail, cutoffDate, keptRecords, trace>>
    /\ UNCHANGED reqVars

\* a loop that goes on for one more turn once the retries are used up
GiveUpLater(n) == n < 0
\* if (retries === 0) throw error
GiveUp(n) == n = 0

\* one turn of the retry loop: await transporter.sendMail(mailOptions)
SendMail ==
    /\ cronPc = "send"
    /\ attempts' = attempts + 1
    /\ \E ok \in BOOLEAN :
        IF ok
        THEN /\ mail' = DailyReport(recentRecords)
             /\ emailed' = Append(emailed, Delivery(now, recentRecords))
             /\ cronPc' = IF variant = "csv" THEN "cleanup" ELSE "idle"
             /\ Did("sent")
             /\ UNCHANGED <<retries, cronLog>>
        ELSE /\ retries' = retries - 1
             /\ Did("failed")
             /\ IF GiveUp(retries - 1)
                THEN CronFails("Error sending daily report")
                ELSE cronPc' = "wait" /\ UNCHANGED cronLog
             /\ UNCHANGED <<mail, emailed>>
    /\ UNCHANGED <<initPc, visited, download, variant, now, lastTick, csvFile, lockFile,
                   backups, db,
                   recentRecords, waits, cutoffDate, keptRecords>>
    /\ UNCHANGED reqVars

\* a retry that follows the failure at once
RetryAtOnce ==
    /\ cronPc = "wait"
    /\ cronPc' = "send"
    /\ UNCHANGED <<initPc, visited, emailed, download, variant, now, lastTick,
                   csvFile, lockFile, backups, db,
                   recentRecords, retries, attempts, waits, mail, cutoffDate,
                   keptRecords, cronLog, trace>>
    /\ UNCHANGED reqVars

\* await new Promise(resolve => setTimeout(resolve, 5000))
WaitBeforeRetry ==
    /\ cronPc = "wait"
    /\ waits' = waits + 1
    /\ cronPc' = "send"
    /\ Did("wait")
    /\ UNCHANGED <<initPc, visited, emailed, download, variant, now, lastTick,
                   csvFile, lockFile, backups, db,
                   recentRecords, retries, attempts, mail, cutoffDate,
                   keptRecords, cronLog>>
    /\ UNCHANGED reqVars

\* cleanupOldData: the horizon, then the backup directories older than it
DirDate(d) == NewDate(d * Day)
\* a pruning that also removes the directory dated at the horizon itself
PruneDirsInclusive(dirs, cutoff) ==
    [d \in {x \in DOMAIN dirs : DateGt(DirDate(x), cutoff)} |-> dirs[d]]
PruneDirs(dirs, cutoff) ==
    [d \in {x \in DOMAIN dirs : ~DateLt(DirDate(x), cutoff)} |-> dirs[d]]

CleanupBackups ==
    /\ cronPc = "cleanup"
    /\ \E ok \in BOOLEAN :
        IF ok
        THEN /\ cutoffDate' = CutoffDate(now)
             /\ backups' = PruneDirs(backups, CutoffDate(now))
             /\ cronPc' = "cleanRead"
             /\ Did("pruneBackups")
             /\ UNCHANGED cronLog
        ELSE /\ CronFails("Error cleaning up old data")
             /\ UNCHANGED <<cutoffDate, backups, trace>>
    /\ UNCHANGED <<initPc, visited, emailed, download, variant, now, lastTick,
                   csvFile, lockFile, db, recentRecords,
                   retries, attempts, waits, mail, keptRecords>>
    /\ UNCHANGED reqVars

\* recordDate > cutoffDate
Retained(o, cutoff) == DateGt(NewDate(GetTimestampTitle(o)), cutoff)
RetainedRecords(file, cutoff) ==
    Filter(CsvParse(file), LAMBDA o : Retained(o, cutoff))

\* cleanupOldData: read, parse and filter the live file
CleanupRead ==
    /\ cronPc = "cleanRead"
    /\ \E ok \in BOOLEAN :
        IF ok /\ csvFile.exists
        THEN /\ keptRecords' = RetainedRecords(csvFile, cutoffDate)
             /\ cronPc' = "cleanWrite"
             /\ UNCHANGED cronLog
        ELSE /\ CronFails("Error cleaning up old data")
             /\ UNCHANGED keptRecords
    /\ UNCHANGED <<initPc, visited, emailed, download, variant, now, lastTick,
                   csvFile, lockFile, backups, db,
                   recentRecords, retries, attempts, waits, mail, cutoffDate, trace>>
    /\ UNCHANGED reqVars

\* the file cleanupOldData writes back
CleanedFile(records) == HeaderAnd(stringifyRecords(records))

\* cleanupOldData: fs.writeFile(csvFilePath, header + csvString)
CleanupWrite ==
    /\ cronPc = "cleanWrite"
    /\ \E ok \in BOOLEAN :
        IF ok
        THEN /\ csvFile' = CleanedFile(keptRecords)
             /\ cronPc' = "idle"
             /\ Did("pruneRecords")
             /\ UNCHANGED cronLog
        ELSE /\ CronFails("Error cleaning up old data")
             /\ UNCHANGED <<csvFile, trace>>
    /\ UNCHANGED <<initPc, visited, emailed, download, variant, now, lastTick,
                   lockFile, backups, db, recentRecords,
                   retries, attempts, waits, mail, cutoffDate, keptRecords>>
    /\ UNCHANGED reqVars

-----------------------------------------------------------------------------
(* The synchronous server (part_003): four columns, no signature check,    *)
(* every file operation synchronous, so a handler and the scheduled        *)
(* callback each run to their end without interleaving.                    *)

SyncColumns == 4

\* the three parsing strategies: JSON.parse(Message); JSON.parse of Message
\* with \" turned into " and the outer quotes removed; JSON.parse(JSON.parse(
\* Message)).  The first that does not throw wins; the third starts with the
\* call that has already thrown in the first.
DecodeSync(m) ==
    CASE m.form = "json" -> [ok |-> TRUE, type |-> "object", val |-> m.val]
      [] m.form = "json2" -> [ok |-> TRUE, type |-> "string", val |-> m.val]
      [] m.form = "escaped" -> [ok |-> TRUE, type |-> "object", val |-> m.val]
      [] OTHER -> [ok |-> FALSE, type |-> "none", val |-> m.val]

\* messageContent.notificationType === 'Bounce': a string has no such property
IsBounceSync(d) == d.type = "object" /\ d.val.notificationType = "Bounce"

\* `"${value}"`: undefined is written as the text undefined
TplField(v) == IF v = Undefined THEN "undefined" ELSE v
TplTs(ts) == IF ts = TsUndefined THEN TsGarbage ELSE ts
LineOf(c, recipient) ==
    [keys |-> "id",
     v |-> << TplField(recipient.emailAddress), TplTs(c.bounce.timestamp),
              TplField(c.mail.source), TplField(c.mail.sourceIp) >>]
LinesOf(c) ==
    [i \in DOMAIN c.bounce.bouncedRecipients |->
        LineOf(c, c.bounce.bouncedRecipients[i])]

\* the file of this server: eol tells whether its text ends with a newline
SyncFile(rows) == [exists |-> TRUE, header |-> TRUE, rows |-> rows, eol |-> TRUE]
\* fs.appendFileSync(csvFilePath, csvData): text appended to a file that does
\* not end with a newline continues its last line, unless the file is empty
Unterminated(file) ==
    file.exists /\ ~file.eol /\ (file.header \/ file.rows # <<>>)
AppendFileSync(file, row) ==
    [exists |-> TRUE, header |-> file.header,
     rows |-> IF Unterminated(file) THEN file.rows ELSE Append(file.rows, row),
     eol |-> TRUE]
RECURSIVE AppendAllSync(_, _)
AppendAllSync(file, rows) ==
    IF rows = <<>> THEN file
    ELSE AppendAllSync(AppendFileSync(file, Head(rows)), Tail(rows))

\* app.post('/sns'), lines 30-107
HandleSnsSync(r, envelopes) ==
    /\ variant = "sync"
    /\ Arrives(r)
    /\ \E e \in envelopes : \E isJson \in BOOLEAN :
        /\ body' = [body EXCEPT ![r] = e]
        /\ IF ~isJson
           THEN /\ Respond(r, 500, "Unsupported Content-Type")
                /\ UNCHANGED <<bounceRecords, csvFile, wrote>>
           ELSE IF ~DecodeSync(e.Message).ok
           THEN /\ Respond(r, 400, "Unable to parse Message content")
                /\ UNCHANGED <<bounceRecords, csvFile, wrote>>
           ELSE IF ~IsBounceSync(DecodeSync(e.Message))
                     \/ InvalidBounceData(DecodeSync(e.Message).val)
           THEN /\ Respond(r, 200, "Notification processed")
                /\ UNCHANGED <<bounceRecords, csvFile, wrote>>
           ELSE \E k \in 0..Len(LinesOf(DecodeSync(e.Message).val)) :
                LET lines == LinesOf(DecodeSync(e.Message).val)
                IN  /\ bounceRecords' = [bounceRecords EXCEPT ![r] = lines]
                    /\ csvFile' = AppendAllSync(csvFile,
                                     Map(SubSeq(lines, 1, k), LAMBDA o : o.v))
                    /\ wrote' = [wrote EXCEPT ![r] = k > 0]
                    /\ IF k = Len(lines)
                       THEN Respond(r, 200, "Notification processed")
                       ELSE Respond(r, 500, "appendFileSync failed")
    /\ UNCHANGED <<initPc, visited, emailed, download, variant, now, lastTick,
                   lockFile, backups, db>>
    /\ UNCHANGED cronVars

\* the details member of a 400 answer: the Message as it was received
Details(r) == IF status[r] = 400 THEN body[r].Message ELSE Undefined

\* lines 151-159: the data lines later than 24 hours ago (the header line is
\* kept beside them, empty lines are skipped)
ReportLinesSync(file, t) ==
    SelectSeq(file.rows, LAMBDA x : DateGt(NewDate(x[ColTimestamp]), twentyFourHoursAgo(t)))
\* filteredLines.length <= 1, the header being one of them
NothingToReportSync(lines) == Len(lines) + 1 <= 1

\* lines 202-208: line.split(',')[1] is undefined on the empty last line of a
\* text that ends with a newline, and .replace on it is a TypeError
CleanupThrowsSync(file) == file.eol
RetainedLinesSync(file, t) ==
    SelectSeq(file.rows, LAMBDA x : DateGt(NewDate(x[ColTimestamp]), CutoffDate(t)))
\* fs.writeFileSync(csvFilePath, retainedLines.join('\n'))
RewrittenSync(file, t) ==
    [exists |-> TRUE, header |-> file.header,
     rows |-> RetainedLinesSync(file, t), eol |-> FALSE]

\* the scheduled callback, lines 141-229.  io names the file operation that
\* fails, if one does.  An exception leaves the callback (there is no
\* try/catch) and ends with the scheduler, which goes on scheduling.
CronSync ==
    /\ variant = "sync"
    /\ cronPc = "idle"
    /\ TickDue
    /\ lastTick' = now
    /\ \E io \in {"none", "read", "copy", "write"} :
        LET read == csvFile.exists /\ io # "read"
            window == IF read THEN ReportLinesSync(csvFile, now) ELSE <<>>
            skipped == read /\ NothingToReportSync(window)
            mailed == read /\ ~skipped
            copied == mailed /\ io # "copy"
            filtered == copied /\ ~CleanupThrowsSync(csvFile)
            written == filtered /\ io # "write"
        IN  /\ recentRecords' = Map(window, LAMBDA x : [keys |-> "id", v |-> x])
            /\ attempts' = IF mailed THEN 1 ELSE 0
            /\ backups' = IF written
                          THEN PruneDirs(WithSnapshot(backups, Today(now), csvFile.rows),
                                         CutoffDate(now))
                          ELSE IF copied
                          THEN WithSnapshot(backups, Today(now), csvFile.rows)
                          ELSE backups
            /\ csvFile' = IF written THEN RewrittenSync(csvFile, now) ELSE csvFile
            /\ trace' = (IF copied THEN <<"snapshot">> ELSE <<>>)
                        \o (IF written THEN <<"pruneRecords", "pruneBackups">> ELSE <<>>)
            /\ cronLog' = IF skipped \/ written THEN <<>>
                          ELSE IF csvFile.exists /\ ~read THEN <<"readFileSync threw">>
                          ELSE IF ~copied THEN <<"copyFileSync threw">>
                          ELSE IF ~filtered THEN <<"TypeError in the cleanup filter">>
                          ELSE <<"writeFileSync threw">>
            /\ cronPc' = IF mailed THEN "callback" ELSE "idle"
    /\ retries' = 0
    /\ waits' = 0
    /\ keptRecords' = <<>>
    /\ UNCHANGED <<initPc, visited, emailed, download, variant, now, lockFile,
                   db, mail, cutoffDate>>
    /\ UNCHANGED reqVars

\* transporter.sendMail(mailOptions, (error, info) => ...), lines 183-189
MailCallbackSync ==
    /\ cronPc = "callback"
    /\ cronPc' = "idle"
    /\ \E ok \in BOOLEAN :
        IF ok THEN /\ mail' = Report(TRUE, Map(recentRecords, LAMBDA o : o.v),
                                     0, NoSummary)
                   /\ emailed' = Append(emailed, Delivery(now, recentRecords))
                   /\ Did("sent")
                   /\ UNCHANGED cronLog
              ELSE /\ cronLog' = Append(cronLog, "Error sending email")
                   /\ Did("failed")
                   /\ UNCHANGED <<mail, emailed>>
    /\ UNCHANGED <<initPc, visited, download, variant, now, lastTick, csvFile, lockFile,
                   backups, db,
                   recentRecords, retries, attempts, waits, cutoffDate, keptRecords>>
    /\ UNCHANGED reqVars

-----------------------------------------------------------------------------
(* The first server (ses-bounces-handler.js): req.body is the notification *)
(* itself, one line per notification, a 30-day cleanup over every line of  *)
(* the file.                                                               *)

FirstRetentionDays == 30

\* a request whose body is the notification, not an SNS envelope
Raw(val) == Envelope(Undefined, Undefined, Undefined, "raw", val)
\* message.notificationType === 'Bounce'
IsBounceFirst(e) == e.Message.form = "raw" /\ e.Message.val.notificationType = "Bounce"
\* bounce.bouncedRecipients[0].emailAddress, mail.source: a TypeError when
\* bounce, the first recipient or mail is undefined
ThrowsFirst(c) ==
    ~c.bounce.present \/ Len(c.bounce.bouncedRecipients) = 0 \/ ~c.mail.present

FirstBodies ==
    { Raw(NFresh), Raw(NOld), Raw(NNoRecipients), Raw(NComplaint),
      Signed("json", NFresh) }

\* app.post('/sns'), lines 25-56
HandleSnsFirst(r, bodies) ==
    /\ variant = "first"
    /\ Arrives(r)
    /\ \E e \in bodies : \E ok \in BOOLEAN :
        /\ body' = [body EXCEPT ![r] = e]
        /\ IF ~IsBounceFirst(e)
           THEN /\ Respond(r, 200, "Notification processed")
                /\ UNCHANGED <<bounceRecords, csvFile, wrote>>
           ELSE IF ThrowsFirst(e.Message.val)
           THEN /\ Respond(r, 500, "TypeError")
                /\ UNCHANGED <<bounceRecords, csvFile, wrote>>
           ELSE LET line == LineOf(e.Message.val, e.Message.val.bounce.bouncedRecipients[1])
                IN  /\ bounceRecords' = [bounceRecords EXCEPT ![r] = <<line>>]
                    /\ IF ok
                       THEN /\ csvFile' = AppendFileSync(csvFile, line.v)
                            /\ wrote' = [wrote EXCEPT ![r] = TRUE]
                            /\ Respond(r, 200, "Notification processed")
                       ELSE /\ Respond(r, 500, "appendFileSync failed")
                            /\ UNCHANGED <<csvFile, wrote>>
    /\ UNCHANGED <<initPc, visited, emailed, download, variant, now, lastTick,
                   lockFile, backups, db>>
    /\ UNCHANGED cronVars

\* the header line 'Bounced Email,Timestamp,Source Email,Source IP'
HeaderLine == <<"Bounced Email", TsGarbage, "Source Email", "Source IP">>
\* the lines of the file's text, as objects: the header line, then the rows
\* (the empty string after a final newline has no second field)
LinesFirst(file) ==
    (IF file.header THEN <<[keys |-> "header", v |-> HeaderLine]>> ELSE <<>>)
        \o Map(file.rows, LAMBDA x : [keys |-> "id", v |-> x])
\* new Date() with setDate(getDate() - 30)
thirtyDaysAgo(t) == NewDate(t - FirstRetentionDays * Day)
\* lines 107-111: every line, the header line among them, is kept only if
\* its second field is a date later than thirty days ago
FilteredLinesFirst(file, t) ==
    SelectSeq(LinesFirst(file),
              LAMBDA o : DateGt(NewDate(o.v[ColTimestamp]), thirtyDaysAgo(t)))
\* fs.writeFileSync(csvFilePath, filteredLines.join('\n'))
RewrittenFirst(file, t) ==
    [exists |-> TRUE,
     header |-> \E i \in DOMAIN FilteredLinesFirst(file, t) :
                    FilteredLinesFirst(file, t)[i].keys = "header",
     rows |-> Map(SelectSeq(FilteredLinesFirst(file, t), LAMBDA o : o.keys = "id"),
                  LAMBDA o : o.v),
     eol |-> FALSE]

\* the scheduled callback, lines 77-114: the whole file is mailed, then the
\* file is filtered and rewritten
CronFirst ==
    /\ variant = "first"
    /\ cronPc = "idle"
    /\ TickDue
    /\ lastTick' = now
    /\ \E io \in {"none", "read", "write"} :
        LET mailed == csvFile.exists /\ io # "read"
            written == mailed /\ io # "write"
        IN  /\ recentRecords' = IF mailed THEN LinesFirst(csvFile) ELSE <<>>
            /\ attempts' = IF mailed THEN 1 ELSE 0
            /\ csvFile' = IF written THEN RewrittenFirst(csvFile, now) ELSE csvFile
            /\ trace' = IF written THEN <<"pruneRecords">> ELSE <<>>
            /\ cronLog' = IF written THEN <<>>
                          ELSE IF mailed THEN <<"writeFileSync threw">>
                          ELSE <<"readFileSync threw">>
            /\ cronPc' = IF mailed THEN "callback" ELSE "idle"
    /\ retries' = 0
    /\ waits' = 0
    /\ keptRecords' = <<>>
    /\ UNCHANGED <<initPc, visited, emailed, download, variant, now, lockFile,
                   backups, db, mail, cutoffDate>>
    /\ UNCHANGED reqVars

\* transporter.sendMail(mailOptions, (error, info) => ...), lines 93-99
MailCallbackFirst ==
    /\ variant = "first"
    /\ cronPc = "callback"
    /\ cronPc' = "idle"
    /\ \E ok \in BOOLEAN :
        IF ok THEN /\ mail' = Report(\E i \in DOMAIN recentRecords :
                                        recentRecords[i].keys = "header",
                                     Map(SelectSeq(recentRecords, LAMBDA o : o.keys = "id"),
                                         LAMBDA o : o.v),
                                     0, NoSummary)
                   /\ emailed' = Append(emailed, Delivery(now, recentRecords))
                   /\ Did("sent")
                   /\ UNCHANGED cronLog
              ELSE /\ cronLog' = Append(cronLog, "Error sending email")
                   /\ Did("failed")
                   /\ UNCHANGED <<mail, emailed>>
    /\ UNCHANGED <<initPc, visited, download, variant, now, lastTick, csvFile, lockFile,
                   backups, db,
                   recentRecords, retries, attempts, waits, cutoffDate, keptRecords>>
    /\ UNCHANGED reqVars

-----------------------------------------------------------------------------
(* GET /download *)

\* .sort({ timestamp: -1 }): latest first
RECURSIVE SortDesc(_)
InsertDesc(o, sorted) ==
    LET n == Cardinality({i \in DOMAIN sorted :
                             sorted[i].v[ColTimestamp] >= o.v[ColTimestamp]})
    IN  SubSeq(sorted, 1, n) \o <<o>> \o SubSeq(sorted, n + 1, Len(sorted))
SortDesc(docs) ==
    IF docs = <<>> THEN <<>>
    ELSE InsertDesc(docs[Len(docs)], SortDesc(SubSeq(docs, 1, Len(docs) - 1)))

\* part_005 854-861, part_000 189-213, part_003 111-128,
\* ses-bounces-handler.js 58-65; ok is FALSE when the file access, the query
\* or the transfer fails
DownloadAnswer(ok) ==
    CASE variant = "db" ->
            IF ~ok THEN Response(500, "error", FALSE, <<>>)
            ELSE IF Len(db) = 0 THEN Response(404, "message", FALSE, <<>>)
            ELSE Response(200, "file", TRUE, stringifyRecords(SortDesc(db)))
      [] variant = "csv" ->
            IF ok /\ csvFile.exists
            THEN Response(200, "file", csvFile.header, csvFile.rows)
            ELSE Response(404, "error", FALSE, <<>>)
      [] variant = "sync" ->
            IF ~csvFile.exists THEN Response(404, "error", FALSE, <<>>)
            ELSE IF ok THEN Response(200, "file", csvFile.header, csvFile.rows)
            ELSE Response(500, "text", FALSE, <<>>)
      [] OTHER ->
            IF csvFile.exists
            THEN Response(200, "file", csvFile.header, csvFile.rows)
            ELSE Response(404, "error", FALSE, <<>>)

Download ==
    /\ download = NoResponse
    /\ \E ok \in BOOLEAN : download' = DownloadAnswer(ok)
    /\ UNCHANGED <<initPc, visited, emailed, variant, now, lastTick, csvFile, lockFile,
                   backups, db>>
    /\ UNCHANGED reqVars
    /\ UNCHANGED cronVars

-----------------------------------------------------------------------------
(* Specifications *)

RequestSteps(r) ==
    \/ AcquireLock(r)
    \/ AppendRows(r)
    \/ ReleaseLock(r)
    \/ CatchRelease(r)
    \/ InsertMany(r)

Request(r) ==
    \/ HandleSns(r, CoreEnvelopes)
    \/ HandleSnsDb(r, CoreEnvelopes)
    \/ RequestSteps(r)

CronCsv ==
    \/ CronFire
    \/ CreateBackup
    \/ CreateTransporter
    \/ ReadReport
    \/ SendMail
    \/ WaitBeforeRetry
    \/ CleanupBackups
    \/ CleanupRead
    \/ CleanupWrite

Cron == CronCsv \/ QueryReport

\* the whole system: requests, the scheduled job and the clock
Next ==
    \/ \E r \in Procs : Request(r)
    \/ Cron
    \/ AdvanceTime

Spec == Init /\ [][Next]_vars

\* concurrent POST /sns requests alone, over every envelope form
InitIntake == InitWith({"csv", "db"}, CoreStores, {NoBackups})
NextIntake ==
    \E r \in Procs :
        \/ HandleSns(r, IntakeEnvelopes)
        \/ HandleSnsDb(r, IntakeEnvelopes)
        \/ RequestSteps(r)
SpecIntake == InitIntake /\ [][NextIntake]_vars

\* the intake over envelopes that lack a signature field or name a foreign or
\* malformed certificate URL
VerifyEnvelopes ==
    { Signed("json", NFresh),
      Envelope(Undefined, "sig", "1", "json", NFresh),
      Envelope(AwsCert, Undefined, "1", "json", NFresh),
      Envelope(AwsCert, "sig", Undefined, "json", NFresh),
      Envelope("https://evil.example.com/cert.pem", "sig", "1", "json", NFresh),
      Envelope("not a url", "sig", "1", "object", NFresh) }
InitVerify == InitWith({"csv", "db"}, {EmptyStore}, {NoBackups})
NextVerify ==
    \E r \in Procs :
        \/ HandleSns(r, VerifyEnvelopes)
        \/ HandleSnsDb(r, VerifyEnvelopes)
        \/ RequestSteps(r)
SpecVerify == InitVerify /\ [][NextVerify]_vars

\* the scheduled job alone on the store of the retention scenario
InitScenario == InitWith({"csv"}, {ScenarioStore}, CoreBackups)
NextScenario == CronCsv \/ AdvanceTime
SpecScenario == InitScenario /\ [][NextScenario]_vars

\* the scheduled job alone, on each server, over stores with old, recent and
\* future-dated records
FutureStore == HeaderAnd(<<RowAt(Now0 + 1, "f@example.com", "fb-f"), RowT8>>)
TickStores == {ScenarioStore, MixedStore, FutureStore}
DocsOf(rows) == Map(rows, LAMBDA x : [keys |-> "id", v |-> x])
Row4(row) == SubSeq(row, 1, SyncColumns)
SyncStoreOf(store) == SyncFile(Map(store.rows, Row4))
InitTick ==
    InitOn({"csv", "db", "sync"},
           [csv |-> TickStores, db |-> {NoFile},
            sync |-> {SyncStoreOf(st) : st \in TickStores}, first |-> {}],
           [csv |-> CoreBackups, db |-> {NoBackups}, sync |-> CoreBackups, first |-> {}],
           [csv |-> {<<>>}, db |-> {DocsOf(st.rows) : st \in TickStores},
            sync |-> {<<>>}, first |-> {}])
NextTick ==
    \/ Cron
    \/ CronSync
    \/ MailCallbackSync
    \/ AdvanceTime
SpecTick == InitTick /\ [][NextTick]_vars

\* one client's request beside the scheduled job, on each server
InitServe ==
    InitOn({"csv", "db", "sync"},
           [csv |-> {ScenarioStore}, db |-> {NoFile},
            sync |-> {SyncStoreOf(ScenarioStore)}, first |-> {}],
           [csv |-> {NoBackups}, db |-> {NoBackups}, sync |-> {NoBackups}, first |-> {}],
           [csv |-> {<<>>}, db |-> {DocsOf(ScenarioStore.rows)}, sync |-> {<<>>}, first |-> {}])
NextServe ==
    \/ Request(1)
    \/ HandleSnsSync(1, CoreEnvelopes)
    \/ Cron
    \/ CronSync
    \/ MailCallbackSync
    \/ AdvanceTime
SpecServe == InitServe /\ [][NextServe]_vars

\* the intake of the three servers over every Message form
DecodeEnvelopes == IntakeEnvelopes \cup {Signed("escaped", NFresh)}
InitDecode ==
    InitOn({"csv", "db", "sync"},
           [csv |-> {EmptyStore}, db |-> {NoFile}, sync |-> {SyncFile(<<>>)}, first |-> {}],
           [csv |-> {NoBackups}, db |-> {NoBackups}, sync |-> {NoBackups}, first |-> {}],
           [csv |-> {<<>>}, db |-> {<<>>}, sync |-> {<<>>}, first |-> {}])
NextDecode ==
    \E r \in Procs :
        \/ HandleSns(r, DecodeEnvelopes)
        \/ HandleSnsDb(r, DecodeEnvelopes)
        \/ HandleSnsSync(r, DecodeEnvelopes)
        \/ RequestSteps(r)
SpecDecode == InitDecode /\ [][NextDecode]_vars

\* the first server: requests, the scheduled job and one download
\* a record the cleanup of the day before has kept (it was less than 30 days
\* old then), more than 30 days old from the first instant on
RowT31 == RowAt(Now0 - 31 * Day + 1, "t31@example.com", "fb-t31")
FirstStores == {SyncFile(<<>>), SyncFile(<<Row4(RowT31), Row4(RowT1)>>)}
InitFirst ==
    InitOn({"first"},
           [first |-> FirstStores], [first |-> {NoBackups}], [first |-> {<<>>}])
NextFirst ==
    \/ \E r \in Procs : HandleSnsFirst(r, FirstBodies)
    \/ CronFirst
    \/ MailCallbackFirst
    \/ AdvanceTime
    \/ Download
SpecFirst == InitFirst /\ [][NextFirst]_vars

\* the requests of every server and one download; the file-backed server may
\* be asked before initializeCsvFile has created its file
InitDownload ==
    InitOn({"csv", "db", "sync", "first"},
           [csv |-> {NoFile, EmptyStore, MixedStore}, db |-> {NoFile},
            sync |-> {SyncFile(<<>>)}, first |-> {SyncFile(<<>>)}],
           [csv |-> {NoBackups}, db |-> {NoBackups}, sync |-> {NoBackups},
            first |-> {NoBackups}],
           [csv |-> {<<>>}, db |-> {<<>>}, sync |-> {<<>>}, first |-> {<<>>}])
NextDownload ==
    \/ \E r \in Procs :
        \/ Request(r)
        \/ HandleSnsSync(r, CoreEnvelopes)
        \/ HandleSnsFirst(r, FirstBodies)
    \/ Download
SpecDownload == InitDownload /\ [][NextDownload]_vars

\* the file-backed server from its start: initializeCsvFile beside the
\* requests, on a first start (no file) and on a restart
InitStart ==
    InitAt({"csv"}, [csv |-> {NoFile, MixedStore}], [csv |-> {NoBackups}],
           [csv |-> {<<>>}], "access")
NextStart ==
    \/ InitAccess
    \/ InitWrite
    \/ \E r \in Procs :
        \/ HandleSns(r, CoreEnvelopes) \/ AcquireLock(r) \/ AppendRows(r)
        \/ ReleaseLock(r) \/ CatchRelease(r)
SpecStart == InitStart /\ [][NextStart]_vars

\* the requests of every server, a subscription confirmation among them; a
\* request that has arrived is handled to its answer
ConfirmEnvelopes == {Signed("text", NComplaint), Signed("json", NFresh)}
InitConfirm ==
    InitOn({"csv", "db", "sync", "first"},
           [csv |-> {EmptyStore}, db |-> {NoFile},
            sync |-> {SyncFile(<<>>)}, first |-> {SyncFile(<<>>)}],
           [csv |-> {NoBackups}, db |-> {NoBackups}, sync |-> {NoBackups},
            first |-> {NoBackups}],
           [csv |-> {<<>>}, db |-> {<<>>}, sync |-> {<<>>}, first |-> {<<>>}])
NextConfirm ==
    \E r \in Procs :
        \/ HandleSns(r, ConfirmEnvelopes) \/ AcquireLock(r) \/ AppendRows(r)
        \/ ReleaseLock(r) \/ CatchRelease(r)
        \/ HandleSnsDb(r, ConfirmEnvelopes) \/ InsertMany(r)
        \/ HandleSnsSync(r, ConfirmEnvelopes)
        \/ HandleSnsFirst(r, ConfirmEnvelopes)
SpecConfirm == InitConfirm /\ [][NextConfirm]_vars /\ WF_vars(NextConfirm)

-----------------------------------------------------------------------------
(* Vocabulary of the properties *)

\* the records of the store, as tuples of their nine values
StoreRows == IF variant = "csv" THEN csvFile.rows
                                ELSE Map(db, LAMBDA o : o.v)
\* the rows a request's records make
RowsOf(r) == IF variant = "csv" THEN stringifyRecords(bounceRecords[r])
                                ELSE Map(bounceRecords[r], LAMBDA o : o.v)
\* between acquiring the lock file and releasing it
InLockedSection(r) == pc[r] \in {"append", "unlock"}
Answered(r) == pc[r] = "done"
Accepted(r) == status[r] = 200 /\ reply[r] = "Bounce processed successfully"
Horizon(t) == t - DefaultRetentionDays * Day
LaterThan(x, t) == NewDate(x[ColTimestamp]).valid /\ x[ColTimestamp] > t
\* cleanupOldData's write-back takes effect in this step
CleanupWrites == cronPc = "cleanWrite" /\ cronPc' = "idle" /\ cronLog' = cronLog

-----------------------------------------------------------------------------
\* C1: at most one appendToCsv call at a time is between acquiring the lock
\* file and releasing it.
MutualExclusion ==
    \A r \in Procs : \A q \in Procs :
        (InLockedSection(r) /\ InLockedSection(q)) => r = q

\* C2: a request answered with an error status has none of its records in
\* the store.
ErrorMeansNothingStored ==
    \A r \in Procs :
        (Answered(r) /\ status[r] # 200) =>
            ~(wrote[r] /\ \E i \in DOMAIN StoreRows : StoreRows[i] \in Range(RowsOf(r)))

\* C3: the append of a Bounce notification with N >= 1 recipients adds
\* exactly N records to the end of the store, one per recipient in order,
\* with the event's timestamp, sourceEmail and sourceIp, equal in every column
\* but email and diagnosticCode; and a request is answered 'Bounce processed
\* successfully' only after that append.
GainsRecords(r) ==
    LET c == body[r].Message.val
        rc == c.bounce.bouncedRecipients
        n == Len(rc)
        old == StoreRows
        new == StoreRows'
    IN  /\ n >= 1
        /\ Len(new) = Len(old) + n
        /\ SubSeq(new, 1, Len(old)) = old
        /\ \A i \in 1..n :
             /\ new[Len(old) + i][1] = rc[i].emailAddress
             /\ new[Len(old) + i][2] = c.bounce.timestamp
             /\ new[Len(old) + i][3] = c.mail.source
             /\ new[Len(old) + i][4] = c.mail.sourceIp
             /\ \A j \in 1..n : \A col \in (1..NumColumns) \ {1, 7} :
                    new[Len(old) + i][col] = new[Len(old) + j][col]
IntakeGainsRecords ==
    [][\A r \in Procs :
          /\ (~wrote[r] /\ wrote'[r]) => GainsRecords(r)
          /\ (~Accepted(r) /\ Accepted(r)') => wrote'[r]]_vars
\* a two-recipient bounce was accepted while another request, which has
\* appended too, is still in flight
TwoRecipientsAccepted ==
    \E r \in Procs : \E q \in Procs :
        /\ r # q
        /\ Accepted(r) /\ wrote[r]
        /\ Len(body[r].Message.val.bounce.bouncedRecipients) = 2
        /\ wrote[q] /\ ~Answered(q)

Deliveries(x) == {q \in Procs : wrote[q] /\ x \in Range(RowsOf(q))}
LiveRecordsSurvive ==
    [][Cardinality({i \in DOMAIN csvFile.rows :
                       LaterThan(csvFile.rows[i], Horizon(now))})
          <= Len(csvFile'.rows)]_vars

\* C6: every row of the live file after cleanup's rewrite is a row it had
\* before, with its nine values unchanged.
CleanupKeepsFields ==
    [][CleanupWrites =>
          \A i \in DOMAIN csvFile'.rows :
              csvFile'.rows[i] \in Range(csvFile.rows)]_vars

\* C7: after cleanup with horizon H the store holds exactly the records it
\* held before whose timestamp is strictly later than H.
CleanupKeepsExactlyNewer ==
    [][CleanupWrites =>
          csvFile'.rows =
              SelectSeq(csvFile.rows, LAMBDA x : LaterThan(x, cutoffDate.time))]_vars

\* C8: with records at T, T-8d, T-10d, T-6d and T-1d and a retention of 7
\* days, a tick at T that runs to its end leaves the records at T, T-6d and
\* T-1d in the store, and its report window holds the records at T-1d and T.
TickAtTComplete ==
    /\ now = ScenarioT /\ lastTick = ScenarioT
    /\ cronPc = "idle" /\ cronLog = <<>>
ScenarioOutcome ==
    TickAtTComplete =>
        /\ csvFile.rows = <<RowT, RowT6, RowT1>>
        /\ Range(Map(recentRecords, LAMBDA o : o.v)) = {RowT1, RowT}

\* C9: once cleanupOldData has rewritten the live file, a second run with
\* the same horizon and no append in between leaves the file as it is.
CleanupOf(file, t) == CleanedFile(RetainedRecords(file, CutoffDate(t)))
CleanupIdempotent ==
    [][CleanupWrites => CleanupOf(csvFile', now) = csvFile']_vars

\* C10: the report window holds every stored record whose timestamp is a
\* date strictly later than now minus 24 hours, and no other record.
ReportComputed == cronPc = "report" /\ cronPc' \in {"send", "cleanup", "idle"}
                    /\ cronLog' = cronLog
ReportWindowStrict ==
    [][ReportComputed =>
          Map(recentRecords', LAMBDA o : o.v) =
              SelectSeq(StoreRows, LAMBDA x : LaterThan(x, now - Hours(24)))]_vars
\* the same for the file-backed server alone, where it holds
ReportWindowStrictCsv ==
    [][(variant = "csv" /\ ReportComputed) =>
          Map(recentRecords', LAMBDA o : o.v) =
              SelectSeq(StoreRows, LAMBDA x : LaterThan(x, now - Hours(24)))]_vars

-----------------------------------------------------------------------------
(* Vocabulary of the scheduled job *)

\* the results of the sendMail calls of the tick, in order
Outcomes == SelectSeq(trace, LAMBDA e : e \in {"failed", "sent"})
\* the sendMail calls and the waits of the tick, in order
Sends == SelectSeq(trace, LAMBDA e : e \in {"failed", "sent", "wait"})
\* the servers whose report is sent by sendDailyReport
HasSendDailyReport == variant \in {"csv", "db"}
\* later than 24 hours before t and not later than t
InLast24Hours(x, t) == LaterThan(x, t - Hours(ReportWindowHours)) /\ x[ColTimestamp] <= t
\* every b of the trace has an a before it
Before(tr, a, b) ==
    \A j \in DOMAIN tr : tr[j] = b => \E i \in 1..(j - 1) : tr[i] = a
ReportError == "Error sending daily report"

\* C11: no record of the report window of a tick is stamped later than the
\* instant of that tick.
NoFutureRecordReported ==
    \A i \in DOMAIN recentRecords : recentRecords[i].v[ColTimestamp] <= lastTick

\* C12: sendMail is invoked in a tick only if some stored record is stamped
\* within the 24 hours before the tick (later than tick - 24h, not later than
\* the tick).
SendsOnlyWithinWindow ==
    attempts > 0 =>
        \E i \in DOMAIN recentRecords : InLast24Hours(recentRecords[i].v, lastTick)
\* the same with the window as each server computes it (no upper bound; the
\* database-backed server includes the lower bound), where it holds
SkipsEmptyWindow ==
    /\ [](attempts > 0 => Len(recentRecords) > 0)
    /\ [][(lastTick' = now /\ recentRecords' = <<>>) => attempts' = 0]_vars

\* C13: when the first two sendMail calls of sendDailyReport fail, a third
\* call follows; when that one succeeds the report is delivered, no report
\* error is logged, sendMail was called exactly 3 times, and one wait lies
\* between call 1 and call 2 and between call 2 and call 3.
ThirdAttemptSucceeds ==
    HasSendDailyReport =>
        /\ Outcomes = <<"failed", "failed">> =>
              (cronPc \in {"wait", "send"} /\ cronLog = <<>>)
        /\ Outcomes = <<"failed", "failed", "sent">> =>
              /\ Sends = <<"failed", "wait", "failed", "wait", "sent">>
              /\ attempts = 3 /\ waits = 2
              /\ ReportError \notin Range(cronLog)
              /\ cronPc \notin {"send", "wait"}
              /\ mail.attachment = stringifyRecords(recentRecords)
\* the transport failed twice and then succeeded
FailedTwiceThenSent == HasSendDailyReport /\ Outcomes = <<"failed", "failed", "sent">>

\* C14: one sendDailyReport call invokes sendMail at most 3 times and never
\* after a successful call; when every call fails it stops after exactly 3
\* calls, the error is logged once and the job is back with the scheduler.
AtMostThreeAttempts ==
    HasSendDailyReport =>
        /\ Len(Outcomes) <= SendRetries
        /\ attempts = Len(Outcomes)
        /\ \A i \in DOMAIN Outcomes : Outcomes[i] = "sent" => i = Len(Outcomes)
        /\ ("sent" \in Range(Outcomes)) => cronPc \notin {"send", "wait"}
        /\ (Outcomes # <<>> /\ "sent" \notin Range(Outcomes)
                /\ cronPc \notin {"send", "wait"}) =>
              /\ Outcomes = <<"failed", "failed", "failed">>
              /\ cronLog = <<ReportError>>
              /\ cronPc = "idle"
\* every attempt of a tick has failed
AllAttemptsFailed ==
    /\ HasSendDailyReport
    /\ Outcomes = <<"failed", "failed", "failed">>
    /\ cronPc = "idle"

\* C15: a step of a tick that removes a record from the live data or deletes
\* a snapshot directory comes after that tick's snapshot, which is then in
\* the backups in full; a tick whose snapshot fails removes nothing.
StoreLoses ==
    \E x \in Range(StoreRows) : Count(StoreRows', x) < Count(StoreRows, x)
BackupsLose == \E d \in DOMAIN backups : d \notin DOMAIN backups'
SnapshotWritten(dirs, t) ==
    /\ Today(t) \in DOMAIN dirs
    /\ Len(dirs[Today(t)]) >= 1
SnapshotPrecedesRemoval ==
    /\ [](Before(trace, "snapshot", "pruneRecords")
            /\ Before(trace, "snapshot", "pruneBackups"))
    /\ [][(StoreLoses \/ BackupsLose) =>
             /\ "snapshot" \in Range(trace')
             /\ SnapshotWritten(backups', now)
             /\ cronLog' = <<>>]_vars
\* a tick has pruned records and, of the directories it was started with,
\* the one of eight days ago
PrunedAfterSnapshot ==
    /\ "pruneRecords" \in Range(trace)
    /\ Len(csvFile.rows) < Len(ScenarioStore.rows)
    /\ (Today(Now0) - 1) \in DOMAIN backups
    /\ (Today(Now0) - 8) \notin DOMAIN backups
    /\ SnapshotWritten(backups, lastTick)

\* C16: a tick of the file-backed server whose report stage failed still
\* prunes the old records and the old snapshots.
ReportFailed ==
    /\ cronLog # <<>>
    /\ cronLog[Len(cronLog)] \in {ReportError, "Failed to create mail transporter"}
ReportFailureStillPrunes ==
    (variant = "csv" /\ cronPc = "idle" /\ ReportFailed) =>
        ("pruneBackups" \in Range(trace) /\ "pruneRecords" \in Range(trace))

\* C17: a step of the job in which an error is logged hands control back to
\* the scheduler and touches no request; whenever the job is with the
\* scheduler and a tick is due the job starts from its first statement, and
\* a request that arrives is handled whatever the job has logged.
JobStart == (CronFire \/ CronSync) /\ trace' \in {<<>>, <<"snapshot">>}
JobRuns ==
    /\ (cronPc = "idle" /\ TickDue) => ENABLED JobStart
    /\ pc[1] = "new" =>
          ENABLED (HandleSns(1, CoreEnvelopes) \/ HandleSnsDb(1, CoreEnvelopes)
                      \/ HandleSnsSync(1, CoreEnvelopes))
-----------------------------------------------------------------------------
(* Vocabulary of the decoding *)

Verified(r) == verifySignature(body[r])
\* the notification kind a Message carries
KindOf(m) == IF m.form = "text" THEN "SubscriptionConfirmation"
                                ELSE m.val.notificationType
\* what the server makes of a Message
Decoded(e) ==
    IF variant = "sync" THEN DecodeSync(e.Message)
    ELSE IF e.Message.form = "object"
         THEN [ok |-> TRUE, type |-> "object", val |-> e.Message.val]
    ELSE JsonParse(e.Message)
SingleEncoded(e) == [e EXCEPT !.Message.form = "json"]
\* no strategy of any server decodes the Message
Undecodable(e) == ~DecodeSync(e.Message).ok /\ ~JsonParse(e.Message).ok
                     /\ e.Message.form # "object"

\* C18: a request whose envelope passes the signature check and carries a
\* notification of another kind than Bounce is answered 200 and changes
\* nothing in the store.
NonBounceIgnored ==
    \A r \in Procs :
        (Answered(r) /\ Verified(r) /\ KindOf(body[r].Message) # "Bounce") =>
            (status[r] = 200 /\ ~wrote[r])

\* C19: a double-encoded Message is decoded to what its single-encoded form
\* is decoded to.
DoubleEncodedDecodesAlike ==
    \A r \in Procs :
        (pc[r] # "new" /\ body[r].Message.form = "json2") =>
            Decoded(body[r]) = Decoded(SingleEncoded(body[r]))

\* C20: a request whose Message no strategy decodes is answered 400 with the
\* raw Message as details, and nothing of it is stored.
UndecodableAnswers400 ==
    \A r \in Procs :
        (Answered(r) /\ Verified(r) /\ Undecodable(body[r])) =>
            (status[r] = 400 /\ Details(r) = body[r].Message /\ ~wrote[r])
\* the same for the synchronous server alone, whenever the request came as
\* JSON, where it holds
UndecodableAnswers400Sync ==
    \A r \in Procs :
        (variant = "sync" /\ Answered(r) /\ ~DecodeSync(body[r].Message).ok
            /\ reply[r] # "Unsupported Content-Type") =>
            (status[r] = 400 /\ Details(r) = body[r].Message /\ ~wrote[r])

-----------------------------------------------------------------------------
(* Answers to client errors, the download, the shape of stored records *)

\* a Bounce notification without recipients or without mail
InvalidBounce(e) ==
    /\ e.Message.form \in {"json", "object", "raw"}
    /\ e.Message.val.notificationType = "Bounce"
    /\ InvalidBounceData(e.Message.val)
\* a request that is wrong on the client's side
ClientError(r) ==
    /\ Answered(r)
    /\ \/ reply[r] = "Unsupported Content-Type"
       \/ Verified(r) /\ Undecodable(body[r])
       \/ Verified(r) /\ InvalidBounce(body[r])

\* C21: every request that fails on the client's input (unsupported content
\* type, Message that cannot be decoded, Bounce of invalid structure) is
\* answered with a 4xx status and stores nothing.
ClientErrorsAre4xx ==
    \A r \in Procs :
        ClientError(r) => (status[r] \in 400..499 /\ ~wrote[r])
\* what the servers do keep of it: such a request stores nothing
ClientErrorsStoreNothing ==
    \A r \in Procs : ClientError(r) => ~wrote[r]

\* C22: a Bounce notification with no bounced recipient or no mail is never
\* answered 200 and appends nothing.
InvalidBounceRejected ==
    \A r \in Procs :
        (Answered(r) /\ Verified(r) /\ InvalidBounce(body[r])) =>
            (status[r] # 200 /\ ~wrote[r])
\* the same without the synchronous server, where it holds
InvalidBounceRejectedLater ==
    \A r \in Procs :
        (variant # "sync" /\ Answered(r) /\ Verified(r) /\ InvalidBounce(body[r])) =>
            (status[r] # 200 /\ ~wrote[r])

\* the records GET /download has to deliver
Dataset == IF variant = "db" THEN Map(db, LAMBDA o : o.v) ELSE csvFile.rows
StoreHoldsNoRecord ==
    IF variant = "db" THEN Len(db) = 0 ELSE ~csvFile.exists \/ csvFile.rows = <<>>
SameRows(a, b) ==
    Len(a) = Len(b) /\ \A x \in Range(a) \cup Range(b) : Count(a, x) = Count(b, x)
\* the answer fits the store: no 200 over a store without records, and a 200
\* carries the header and every record (the 500 of a failed query or transfer
\* and the 404 of a file that cannot be accessed are left aside)
AnswerFitsStore ==
    /\ StoreHoldsNoRecord => download'.status \in {404, 500}
    /\ download'.status = 200 =>
           (download'.header /\ SameRows(download'.rows, Dataset))
    /\ (download'.status = 404 /\ variant = "db") => StoreHoldsNoRecord

\* C23: GET /download answers 404 whenever the store holds no record, and
\* the full dataset otherwise.
DownloadIs404WhenEmpty ==
    [][download' # download => AnswerFitsStore]_vars
\* the same for the database-backed server alone, where it holds
DownloadIs404WhenEmptyDb ==
    [][(variant = "db" /\ download' # download) => AnswerFitsStore]_vars

\* the member of the JSON body of an answer to POST /sns: every server
\* answers 200 with {message} and anything else with {error}
ReplyMember(r) == IF status[r] = 200 THEN "message" ELSE "error"
IsFailure(code) == code >= 400

\* C24: every answer with a 4xx or 5xx status, of POST /sns and of
\* GET /download, is a JSON body with an error member.
FailuresCarryError ==
    /\ \A r \in Procs :
          (Answered(r) /\ IsFailure(status[r])) => ReplyMember(r) = "error"
    /\ IsFailure(download.status) => download.member = "error"
\* the same for the two servers whose every failure answer is {error: ...}
FailuresCarryErrorFile ==
    variant \in {"csv", "first"} =>
        /\ \A r \in Procs :
              (Answered(r) /\ IsFailure(status[r])) => ReplyMember(r) = "error"
        /\ IsFailure(download.status) => download.member = "error"

\* the five columns that carry a placeholder when SES gives no value
PlaceholderColumns == ColBounceType..NumColumns
Filled(row) == \A c \in PlaceholderColumns : row[c] \notin {"", Undefined}

\* C25: every record of the store has a non-empty bounceType, bounceSubType,
\* diagnosticCode, reportingMTA and feedbackId.
PlaceholdersKept ==
    variant \in {"csv", "db"} => \A i \in DOMAIN StoreRows : Filled(StoreRows[i])
\* what holds: the rows a request builds are filled
PlaceholdersAtIntake ==
    \A r \in Procs : \A i \in DOMAIN RowsOf(r) : Filled(RowsOf(r)[i])

ValidInstant(row) == NewDate(row[ColTimestamp]).valid

\* C26: the timestamp of every record of the store is a valid instant: a
\* Bounce whose timestamp is missing or cannot be parsed is never persisted.
ValidTimestamps ==
    variant \in {"csv", "db"} => \A i \in DOMAIN StoreRows : ValidInstant(StoreRows[i])
\* the same for the database-backed server alone, whose schema refuses an
\* Invalid Date
ValidTimestampsDb ==
    variant = "db" => \A i \in DOMAIN StoreRows : ValidInstant(StoreRows[i])

\* C27: once the live file exists, its first row is the header in every
\* reachable state.
HeaderStaysFirst == csvFile.exists => csvFile.header
\* the same for the file-backed and the synchronous server, whose cleanups
\* write the header back
HeaderStaysFirstLater ==
    (variant \in {"csv", "sync"} /\ csvFile.exists) => csvFile.header

\* inside appendToCsv, from the lock file written to the function left
AppendInProgress(r) == pc[r] \in {"append", "unlock", "catch"}
\* appendToCsv was entered for the request and left by its catch block
LeftByCatch(r) == Answered(r) /\ status[r] = 500 /\ bounceRecords[r] # <<>>

-----------------------------------------------------------------------------
(* The content of the report *)

\* the value of a column of a record of the window, 'Unknown' when it has none
ColumnOr(o, c) == IF Falsy(o.v[c]) THEN "Unknown" ELSE o.v[c]
\* the counts of the records by the value of a column
CountsBy(records, c) ==
    [t \in {ColumnOr(records[i], c) : i \in DOMAIN records} |->
        Cardinality({i \in DOMAIN records : ColumnOr(records[i], c) = t})]
RECURSIVE SumOver(_, _)
SumOver(f, S) ==
    IF S = {} THEN 0
    ELSE LET t == CHOOSE x \in S : TRUE IN f[t] + SumOver(f, S \ {t})
ReportDelivered == HasSendDailyReport /\ mail' # mail
\* the body of the report gives the total of the window and the counts by
\* the given column, and the counts add up to the total
SummaryBy(c) ==
    /\ mail'.total = Len(recentRecords)
    /\ mail'.summary = CountsBy(recentRecords, c)
    /\ SumOver(mail'.summary, DOMAIN mail'.summary) = mail'.total

AttachmentFits ==
    /\ mail'.header
    /\ Len(mail'.attachment) = Len(recentRecords)
    /\ \A i \in DOMAIN recentRecords :
          /\ Len(mail'.attachment[i]) = NumColumns
          /\ mail'.attachment[i] = recentRecords[i].v

\* C30: the attachment of a delivered report is the nine-column header
\* followed by exactly one row per record of the window, each with the nine
\* values of its record.
AttachmentCarriesRecords ==
    [][ReportDelivered => AttachmentFits]_vars
\* the same for the database-backed server alone, where it holds
AttachmentCarriesRecordsDb ==
    [][(variant = "db" /\ ReportDelivered) => AttachmentFits]_vars

-----------------------------------------------------------------------------
(* The retention of snapshots, the download horizon, the confirmation of a *)
(* subscription                                                            *)

\* a snapshot directory whose date lies more than retentionDays before the
\* day of instant t
OlderThanRetention(d, t) == d < Today(t) - DefaultRetentionDays
PruningCompletes ==
    "pruneBackups" \in Range(trace') /\ "pruneBackups" \notin Range(trace)

Within30Days(row, t) ==
    NewDate(row[ColTimestamp]).valid /\ row[ColTimestamp] > t - FirstRetentionDays * Day

\* C32: the dataset GET /download serves holds no record stamped more than
\* 30 days before the request.
DownloadsLast30Days ==
    [][(download' # download /\ download'.status = 200) =>
          \A i \in DOMAIN download'.rows : Within30Days(download'.rows[i], now)]_vars
\* what the first server does keep: the file its cleanup writes holds no
\* record stamped more than 30 days before the tick
CleanupKeepsLast30Days ==
    [][(variant = "first" /\ "pruneRecords" \in Range(trace') /\ lastTick' = now
            /\ lastTick # now) =>
          \A i \in DOMAIN csvFile'.rows : Within30Days(csvFile'.rows[i], now)]_vars

\* the request is the confirmation request SNS sends for a new subscription
IsConfirmation(r) ==
    pc[r] # "new" /\ KindOf(body[r].Message) = "SubscriptionConfirmation"

\* C33: the SubscribeURL of a subscription confirmation request is
\* eventually fetched by the server.
ConfirmationVisited ==
    \A r \in Procs : IsConfirmation(r) ~> (r \in visited)
\* what the servers do: the confirmation request is answered
ConfirmationAnswered ==
    \A r \in Procs : IsConfirmation(r) ~> Answered(r)

-----------------------------------------------------------------------------
(* Decoding, the tick over an empty window, verification, the cleanup of   *)
(* lines                                                                   *)

\* the handler goes on with a structured notification
DecodedAsNotification(e) == Decoded(e).ok /\ Decoded(e).type = "object"
Handled(r) == pc[r] # "new" /\ Verified(r) /\ reply[r] # "Unsupported Content-Type"

\* C34: whenever the Message is an object, a once-encoded or a twice-encoded
\* notification, the handler goes on with a structured notification object,
\* the result of the earliest strategy that succeeds.
DecodesEveryForm ==
    \A r \in Procs :
        (Handled(r) /\ body[r].Message.form \in {"object", "json", "json2"}) =>
            DecodedAsNotification(body[r])
\* what holds in every server: a once-encoded notification is decoded by the
\* single parse
DecodesOnceEncoded ==
    \A r \in Procs :
        (Handled(r) /\ body[r].Message.form = "json") =>
            DecodedAsNotification(body[r])

\* a tick has run to its end without an error, over an empty window
EmptyWindowTick ==
    /\ variant \in {"csv", "sync"}
    /\ cronPc = "idle"
    /\ lastTick >= Now0
    /\ csvFile.exists
    /\ recentRecords = <<>>
    /\ cronLog = <<>>
\* a record of the live file stamped before the retention horizon of the tick
PastHorizon(row) ==
    NewDate(row[ColTimestamp]).valid /\ row[ColTimestamp] < Horizon(lastTick)
SnapshotAndPruningDone ==
    /\ "snapshot" \in Range(trace)
    /\ "pruneRecords" \in Range(trace)
    /\ \A i \in DOMAIN csvFile.rows : ~PastHorizon(csvFile.rows[i])

\* C35: a tick whose window is empty skips only the email: the snapshot is
\* taken and the records older than the retention horizon are deleted.
EmptyWindowSkipsOnlyMail ==
    EmptyWindowTick => SnapshotAndPruningDone
\* the same for the file-backed server alone, where it holds
EmptyWindowSkipsOnlyMailLater ==
    (variant = "csv" /\ EmptyWindowTick) => SnapshotAndPruningDone
\* the file-backed server reaches the end of such a tick
EmptyWindowTickLater == variant = "csv" /\ EmptyWindowTick /\ attempts = 0

\* the envelope lacks SigningCertURL, Signature or SignatureVersion, or its
\* SigningCertURL is no URL or names a host outside .amazonaws.com
Unsigned(e) ==
    \/ e.SigningCertURL \in {Undefined, ""}
    \/ e.Signature \in {Undefined, ""}
    \/ e.SignatureVersion \in {Undefined, ""}
    \/ e.SigningCertURL # AwsCert

\* C36: a request whose envelope lacks a signature field, or whose
\* SigningCertURL is not a URL of a host under .amazonaws.com, is never
\* persisted: no record is built of it and none of it reaches the store.
UnsignedNeverPersisted ==
    \A r \in Procs :
        (pc[r] # "new" /\ Unsigned(body[r])) =>
            (Answered(r) /\ ~Accepted(r) /\ ~wrote[r] /\ bounceRecords[r] = <<>>)
\* a request with a malformed certificate URL was turned away, and the
\* store holds the records of the other, signed request and nothing else
UnsignedTurnedAway ==
    /\ Answered(1) /\ body[1].SigningCertURL = "not a url" /\ ~wrote[1]
    /\ Answered(2) /\ ~Unsigned(body[2]) /\ wrote[2]
    /\ StoreRows = RowsOf(2)

\* a tick has taken its snapshot and has come to its end with no file
\* operation failing
CleanupReached ==
    /\ variant \in {"csv", "sync"}
    /\ cronPc \in {"idle", "callback"}
    /\ "snapshot" \in Range(trace)
    /\ Range(cronLog) \subseteq {"TypeError in the cleanup filter"}
CleanupCompleted ==
    /\ cronLog = <<>>
    /\ "pruneRecords" \in Range(trace)
    /\ csvFile.header

\* C37: the cleanup drops the empty lines of the live file without throwing
\* and completes, writing back the header and the retained rows.
CleanupHandlesEmptyLines == CleanupReached => CleanupCompleted
\* the same for the file-backed server alone, whose parser skips empty lines
CleanupHandlesEmptyLinesLater ==
    (variant = "csv" /\ CleanupReached) => CleanupCompleted

-----------------------------------------------------------------------------
(* The start of the server, the answers of the database-backed server, the *)
(* reports of successive ticks                                             *)

\* every row a request has appended is in the live file
AppendsKept ==
    \A r \in Procs :
        wrote[r] => \A x \in Range(RowsOf(r)) : x \in Range(csvFile.rows)

\* C38: once initializeCsvFile has ended, whatever the interleaving with the
\* requests, the live file begins with the header row and holds every row
\* appended.
StartDoesNotRace ==
    initPc = "done" => (csvFile.exists /\ csvFile.header /\ AppendsKept)
\* what holds when no request comes before initializeCsvFile has ended
StartAloneIsSafe ==
    (initPc = "done" /\ \A r \in Procs : pc[r] = "new") =>
        (csvFile.exists /\ csvFile.header)

Ignored(r) == status[r] = 200 /\ reply[r] = "Non-bounce notification ignored"
\* the Message was decoded and is no Bounce notification
DecodedNonBounce(e) ==
    /\ Decoded(e).ok
    /\ ~(Decoded(e).type = "object" /\ Decoded(e).val.notificationType = "Bounce")
\* 'ignored' is answered only to a verified, decoded notification of another
\* kind; a failed verification and a Message that cannot be parsed are
\* answered with an error status
IgnoresOnlyNonBounce(r) ==
    /\ Ignored(r) => (Verified(r) /\ DecodedNonBounce(body[r]))
    /\ (~Verified(r) \/ ~Decoded(body[r]).ok) => IsFailure(status[r])

\* C39: the database-backed server answers 200 'Non-bounce notification
\* ignored' only to a notification that passed the verification and was
\* decoded as a kind other than Bounce, and answers a failed verification or
\* an unparseable Message with an error status.
DbIgnoresOnlyNonBounce ==
    \A r \in Procs :
        (variant = "db" /\ Answered(r)) => IgnoresOnlyNonBounce(r)
\* the same for the file-backed server, where it holds
CsvIgnoresOnlyNonBounce ==
    \A r \in Procs :
        (variant = "csv" /\ Answered(r)) => IgnoresOnlyNonBounce(r)

\* the records of two delivered reports
InBoth(i, j) == Range(emailed[i].rows) \cap Range(emailed[j].rows)

\* C40: with one tick every 24 hours, no record of the file-backed server is
\* emailed in two daily reports.
EmailedAtMostOnce ==
    variant = "csv" =>
        \A i, j \in DOMAIN emailed : i < j => InBoth(i, j) = {}
\* what holds: a record emailed twice was stamped after the tick of its first
\* report (from the instant of that tick on, in the database-backed server)
EmailedTwiceOnlyIfPostdated ==
    HasSendDailyReport =>
        \A i, j \in DOMAIN emailed :
            i < j => \A x \in InBoth(i, j) :
                        IF variant = "db" THEN x[ColTimestamp] >= emailed[i].at
                                          ELSE x[ColTimestamp] > emailed[i].at

====
